---- MODULE Spec2Model ----
(***************************************************************************)
(* python-pixabay: the Image and Video search clients of src/pixabay.py.   *)
(*                                                                         *)
(* A client object holds api_key and root_url.  A search call binds its   *)
(* keyword arguments over the defaults of the signature, builds the query *)
(* payload, issues one blocking requests.get and classifies the response: *)
(* status 200 returns resp.json(), any other status raises                *)
(* ValueError(resp.text).  Nothing is caught.                             *)
(***************************************************************************)
EXTENDS Integers, Sequences, FiniteSets, TLC

VARIABLES clients, ctor, frames, started, requests

vars == <<clients, ctor, frames, started, requests>>

(***************************************************************************)
(* Bounds of the model.                                                    *)
(***************************************************************************)
\* The most keyword arguments one call supplies.
MaxSupplied == 2
\* The most search calls started in one behaviour.
MaxCalls == 2
\* The threads that may be inside a search call at once (concurrent spec).
NThreads == 2

(***************************************************************************)
(* Python values: a str, an int and a bool are different values even when  *)
(* they print alike ("true" is not True).                                  *)
(***************************************************************************)
S(s) == <<"str", s>>
I(n) == <<"int", n>>
B(b) == <<"bool", b>>

(***************************************************************************)
(* IPixabay.__init__: the object's attributes after construction.          *)
(***************************************************************************)
IPixabayInit(api_key) ==
    [api_key |-> api_key, root_url |-> "https://pixabay.com/api/"]

(***************************************************************************)
(* The signatures' defaults.                                               *)
(***************************************************************************)
\* Mutant: the docstring's URL-encoded default for q.
ImageDefaultsEncoded ==
    [q              |-> S("yellow+flower"),
     lang           |-> S("en"),
     id             |-> S(""),
     image_type     |-> S("all"),
     orientation    |-> S("all"),
     category       |-> S(""),
     min_width      |-> I(0),
     min_height     |-> I(0),
     colors         |-> S(""),
     editors_choice |-> S("false"),
     safesearch     |-> S("false"),
     order          |-> S("popular"),
     page           |-> I(1),
     per_page       |-> I(20),
     callback       |-> S(""),
     pretty         |-> S("false")]

ImageDefaults ==
    [q              |-> S("yellow flower"),
     lang           |-> S("en"),
     id             |-> S(""),
     image_type     |-> S("all"),
     orientation    |-> S("all"),
     category       |-> S(""),
     min_width      |-> I(0),
     min_height     |-> I(0),
     colors         |-> S(""),
     editors_choice |-> S("false"),
     safesearch     |-> S("false"),
     order          |-> S("popular"),
     page           |-> I(1),
     per_page       |-> I(20),
     callback       |-> S(""),
     pretty         |-> S("false")]

\* Mutant: pretty defaults to Python's False.
VideoDefaultsNativeBool ==
    [q              |-> S("yellow flower"),
     lang           |-> S("en"),
     id             |-> S(""),
     video_type     |-> S("all"),
     category       |-> S(""),
     min_width      |-> I(0),
     min_height     |-> I(0),
     editors_choice |-> S("false"),
     safesearch     |-> S("false"),
     order          |-> S("popular"),
     page           |-> I(1),
     per_page       |-> I(20),
     callback       |-> S(""),
     pretty         |-> B(FALSE)]

VideoDefaults ==
    [q              |-> S("yellow flower"),
     lang           |-> S("en"),
     id             |-> S(""),
     video_type     |-> S("all"),
     category       |-> S(""),
     min_width      |-> I(0),
     min_height     |-> I(0),
     editors_choice |-> S("false"),
     safesearch     |-> S("false"),
     order          |-> S("popular"),
     page           |-> I(1),
     per_page       |-> I(20),
     callback       |-> S(""),
     pretty         |-> S("false")]

(***************************************************************************)
(* Python's binding of a call's keyword arguments to the parameters: the   *)
(* argument where one is passed, the signature's default otherwise.        *)
(***************************************************************************)
Bind(defaults, kw) ==
    [p \in DOMAIN defaults |-> IF p \in DOMAIN kw THEN kw[p] ELSE defaults[p]]

(***************************************************************************)
(* The payload dict literal of each search, from the bound parameters a.   *)
(***************************************************************************)
\* Mutant: id put under "key".
ImagePayloadIdAsKey(self, a) ==
    [key            |-> a.id,
     q              |-> a.q,
     lang           |-> a.lang,
     id             |-> a.id,
     image_type     |-> a.image_type,
     orientation    |-> a.orientation,
     category       |-> a.category,
     min_width      |-> a.min_width,
     min_height     |-> a.min_height,
     colors         |-> a.colors,
     editors_choice |-> a.editors_choice,
     safesearch     |-> a.safesearch,
     order          |-> a.order,
     page           |-> a.page,
     per_page       |-> a.per_page,
     callback       |-> a.callback,
     pretty         |-> a.pretty]

ImagePayload(self, a) ==
    [key            |-> S(self.api_key),
     q              |-> a.q,
     lang           |-> a.lang,
     id             |-> a.id,
     image_type     |-> a.image_type,
     orientation    |-> a.orientation,
     category       |-> a.category,
     min_width      |-> a.min_width,
     min_height     |-> a.min_height,
     colors         |-> a.colors,
     editors_choice |-> a.editors_choice,
     safesearch     |-> a.safesearch,
     order          |-> a.order,
     page           |-> a.page,
     per_page       |-> a.per_page,
     callback       |-> a.callback,
     pretty         |-> a.pretty]

\* Mutant: min_height copied from min_width.
VideoPayloadCopied(self, a) ==
    [key            |-> S(self.api_key),
     q              |-> a.q,
     lang           |-> a.lang,
     id             |-> a.id,
     video_type     |-> a.video_type,
     category       |-> a.category,
     min_width      |-> a.min_width,
     min_height     |-> a.min_width,
     editors_choice |-> a.editors_choice,
     safesearch     |-> a.safesearch,
     order          |-> a.order,
     page           |-> a.page,
     per_page       |-> a.per_page,
     callback       |-> a.callback,
     pretty         |-> a.pretty]

VideoPayload(self, a) ==
    [key            |-> S(self.api_key),
     q              |-> a.q,
     lang           |-> a.lang,
     id             |-> a.id,
     video_type     |-> a.video_type,
     category       |-> a.category,
     min_width      |-> a.min_width,
     min_height     |-> a.min_height,
     editors_choice |-> a.editors_choice,
     safesearch     |-> a.safesearch,
     order          |-> a.order,
     page           |-> a.page,
     per_page       |-> a.per_page,
     callback       |-> a.callback,
     pretty         |-> a.pretty]

(***************************************************************************)
(* The first half of each search, up to the call of get: the object as the *)
(* code leaves it (no attribute is assigned), and get's two arguments.     *)
(***************************************************************************)
ImageRequest(self, kw) ==
    [self   |-> self,
     url    |-> self.root_url,
     params |-> ImagePayload(self, Bind(ImageDefaults, kw))]

\* Mutant: the path segment left out.
VideoRequestNoSuffix(self, kw) ==
    [self   |-> self,
     url    |-> self.root_url,
     params |-> VideoPayload(self, Bind(VideoDefaults, kw))]

\* Mutant: self.root_url += "videos/".
VideoRequestAppends(self, kw) ==
    [self   |-> [self EXCEPT !.root_url = self.root_url \o "videos/"],
     url    |-> self.root_url \o "videos/",
     params |-> VideoPayload(self, Bind(VideoDefaults, kw))]

VideoRequest(self, kw) ==
    [self   |-> self,
     url    |-> self.root_url \o "videos/",
     params |-> VideoPayload(self, Bind(VideoDefaults, kw))]

(***************************************************************************)
(* The keyword arguments a caller may pass.  Each option has a few values  *)
(* other than its default: out-of-range integers, and for the boolean      *)
(* style options both the documented strings and Python's own booleans.    *)
(***************************************************************************)
Supplied ==
    [q              |-> {S("apple")},
     lang           |-> {S("de")},
     id             |-> {S("195893")},
     image_type     |-> {S("photo")},
     video_type     |-> {S("film")},
     orientation    |-> {S("horizontal")},
     category       |-> {S("nature")},
     min_width      |-> {I(640)},
     min_height     |-> {I(-1)},
     colors         |-> {S("red")},
     editors_choice |-> {S("true"), B(TRUE)},
     safesearch     |-> {S("true"), B(FALSE)},
     order          |-> {S("latest")},
     page           |-> {I(0)},
     per_page       |-> {I(1), I(1000)},
     callback       |-> {S("cb")},
     pretty         |-> {S("true"), S("false"), B(TRUE)}]

RECURSIVE KwargsOver(_)
KwargsOver(names) ==
    IF names = {} THEN {<<>>}
    ELSE LET p == CHOOSE x \in names : TRUE
         IN  {(p :> v) @@ f : v \in Supplied[p], f \in KwargsOver(names \ {p})}

KwargsOf(defaults, most) ==
    UNION {KwargsOver(names) :
             names \in {n \in SUBSET DOMAIN defaults : Cardinality(n) <= most}}

ImageKwargs == KwargsOf(ImageDefaults, MaxSupplied)
VideoKwargs == KwargsOf(VideoDefaults, MaxSupplied)

\* Where the options are not the matter: no argument, or the docstring's call.
FewKwargs == {<<>>, [q |-> S("apple"), page |-> I(1)]}

(***************************************************************************)
(* Response bodies, as the text's lexical chunks, and json.loads on them.  *)
(***************************************************************************)
BodyHits     == <<"{", "\"total\"", ":", "1", ",", "\"hits\"", ":",
                  "[", "{", "\"id\"", ":", "1", "}", "]", "}">>
BodyNoHits   == <<"{", "\"total\"", ":", "0", ",", "\"hits\"", ":", "[", "]", "}">>
BodyText     == <<"Bad request">>
BodyCut      == <<"{", "\"total\"", ":", "1", ",", "\"hits\"", ":", "[", "{">>
BodyTrailing == <<"{", "}", "}">>
BodyEmpty    == <<>>

Bodies == {BodyHits, BodyNoHits, BodyText, BodyCut, BodyTrailing, BodyEmpty}

NumTok == ("0" :> 0) @@ ("1" :> 1)
StrTok == ("\"total\"" :> "total") @@ ("\"hits\"" :> "hits") @@ ("\"id\"" :> "id")

None    == <<"None">>
Dict(f) == <<"dict", f>>
List(s) == <<"list", s>>
Text(t) == <<"text", t>>

JOk(v, i)     == [ok |-> TRUE, val |-> v, next |-> i, msg |-> ""]
JFail(msg, i) == [ok |-> FALSE, val |-> None, next |-> i, msg |-> msg]
Tok(toks, i)  == IF i <= Len(toks) THEN toks[i] ELSE "<end>"

RECURSIVE JsonValue(_, _), JsonMembers(_, _, _), JsonElements(_, _, _)
JsonValue(toks, i) ==
    LET t == Tok(toks, i)
    IN  CASE t \in DOMAIN NumTok -> JOk(I(NumTok[t]), i + 1)
          [] t \in DOMAIN StrTok -> JOk(S(StrTok[t]), i + 1)
          [] t = "true"  -> JOk(B(TRUE), i + 1)
          [] t = "false" -> JOk(B(FALSE), i + 1)
          [] t = "null"  -> JOk(None, i + 1)
          [] t = "{" -> IF Tok(toks, i + 1) = "}"
                        THEN JOk(Dict(<<>>), i + 2)
                        ELSE JsonMembers(toks, i + 1, <<>>)
          [] t = "[" -> IF Tok(toks, i + 1) = "]"
                        THEN JOk(List(<<>>), i + 2)
                        ELSE JsonElements(toks, i + 1, <<>>)
          [] OTHER -> JFail("Expecting value", i)

JsonMembers(toks, i, acc) ==
    IF Tok(toks, i) \notin DOMAIN StrTok
    THEN JFail("Expecting property name enclosed in double quotes", i)
    ELSE IF Tok(toks, i + 1) # ":"
    THEN JFail("Expecting ':' delimiter", i + 1)
    ELSE LET v == JsonValue(toks, i + 2)
         IN  IF ~v.ok THEN v
             ELSE LET more == (StrTok[Tok(toks, i)] :> v.val) @@ acc
                  IN  CASE Tok(toks, v.next) = "," -> JsonMembers(toks, v.next + 1, more)
                        [] Tok(toks, v.next) = "}" -> JOk(Dict(more), v.next + 1)
                        [] OTHER -> JFail("Expecting ',' delimiter", v.next)

JsonElements(toks, i, acc) ==
    LET v == JsonValue(toks, i)
    IN  IF ~v.ok THEN v
        ELSE LET more == Append(acc, v.val)
             IN  CASE Tok(toks, v.next) = "," -> JsonElements(toks, v.next + 1, more)
                   [] Tok(toks, v.next) = "]" -> JOk(List(more), v.next + 1)
                   [] OTHER -> JFail("Expecting ',' delimiter", v.next)

Json(toks) ==
    LET v == JsonValue(toks, 1)
    IN  IF v.ok /\ v.next <= Len(toks) THEN JFail("Extra data", v.next) ELSE v

(***************************************************************************)
(* What requests.get hands back: a response, or an exception of the        *)
(* transport.  What a search call ends with: a returned value or a raised  *)
(* exception.                                                              *)
(***************************************************************************)
Response(status, body) == [status_code |-> status, text |-> body]
Exc(type, content)     == [type |-> type, content |-> content]

Got(resp)    == [kind |-> "response", resp |-> resp, exc |-> Exc("", None)]
GotExc(exc)  == [kind |-> "raised", resp |-> Response(0, <<>>), exc |-> exc]

Return(v)    == [kind |-> "return", value |-> v, exc |-> Exc("", None)]
Raise(e)     == [kind |-> "raise", value |-> None, exc |-> e]
Pending      == [kind |-> "pending", value |-> None, exc |-> Exc("", None)]

Statuses  == {200, 201, 204, 301, 400, 429, 500}
Responses == {Response(st, b) : st \in Statuses, b \in Bodies}
Failures  == {Exc("ConnectionError", S("Name or service not known")),
              Exc("Timeout", S("Read timed out"))}

FewResponses == {Response(200, BodyHits), Response(400, BodyText)}
FewFailures  == {Exc("ConnectionError", S("Name or service not known"))}

(***************************************************************************)
(* resp.json(): the parsed body, or the decoder's exception.               *)
(***************************************************************************)
\* Mutant: except ValueError: return {}.
RespJsonSwallows(resp) ==
    LET j == Json(resp.text)
    IN  IF j.ok THEN Return(j.val) ELSE Return(Dict(<<>>))

RespJson(resp) ==
    LET j == Json(resp.text)
    IN  IF j.ok THEN Return(j.val) ELSE Raise(Exc("JSONDecodeError", S(j.msg)))

(***************************************************************************)
(* The second half of each search, from get's outcome on.  No statement is *)
(* inside a try: an exception of get or of resp.json() leaves the call as  *)
(* it is.                                                                  *)
(***************************************************************************)
\* Mutant: every 2xx status taken for success.
ImageResultAny2xx(got) ==
    IF got.kind = "raised" THEN Raise(got.exc)
    ELSE IF got.resp.status_code \div 100 = 2 THEN RespJson(got.resp)
    ELSE Raise(Exc("ValueError", Text(got.resp.text)))

ImageResult(got) ==
    IF got.kind = "raised" THEN Raise(got.exc)
    ELSE IF got.resp.status_code = 200 THEN RespJson(got.resp)
    ELSE Raise(Exc("ValueError", Text(got.resp.text)))

\* Mutant: return resp.json()["hits"].
VideoResultHitsOnly(got) ==
    IF got.kind = "raised" THEN Raise(got.exc)
    ELSE IF got.resp.status_code = 200
    THEN LET r == RespJson(got.resp)
         IN  IF r.kind = "return" /\ r.value[1] = "dict" /\ "hits" \in DOMAIN r.value[2]
             THEN Return(r.value[2].hits) ELSE r
    ELSE Raise(Exc("ValueError", Text(got.resp.text)))

VideoResult(got) ==
    IF got.kind = "raised" THEN Raise(got.exc)
    ELSE IF got.resp.status_code = 200 THEN RespJson(got.resp)
    ELSE Raise(Exc("ValueError", Text(got.resp.text)))

(***************************************************************************)
(* get(url, params): one request on the wire per call of get.              *)
(***************************************************************************)
\* Mutant: get called once for the status and once more for the body.
IssueTwice(log, t, n) == Append(Append(log, [t |-> t, n |-> n]), [t |-> t, n |-> n])

Issue(log, t, n) == Append(log, [t |-> t, n |-> n])

(***************************************************************************)
(* State.                                                                  *)
(*   clients   the Image and the Video object's attributes                 *)
(*   ctor      the api key each object was constructed with                *)
(*   frames    per thread, the search call it is in or has last ended      *)
(*   started   the number of search calls started so far                   *)
(*   requests  the GET requests issued so far, oldest first                *)
(***************************************************************************)
ApiKeys == {"key-A", "key-B"}

NoRequest == [url |-> "", params |-> <<>>]
Idle == [pc |-> "idle", cls |-> "", kw |-> <<>>, n |-> 0,
         req |-> NoRequest, got |-> GotExc(Exc("", None)), out |-> Pending]

InitClients ==
    \E key \in ApiKeys :
        /\ ctor = [Image |-> key, Video |-> key]
        /\ clients = [Image |-> IPixabayInit(key), Video |-> IPixabayInit(key)]

Init ==
    /\ InitClients
    /\ frames = [t \in {1} |-> Idle]
    /\ started = 0
    /\ requests = <<>>

InitConc ==
    /\ InitClients
    /\ frames = [t \in 1..NThreads |-> Idle]
    /\ started = 0
    /\ requests = <<>>

\* A thread outside any call may start one (the model stops at MaxCalls).
Ready(t) == frames[t].pc = "idle" /\ started < MaxCalls

\* A thread enters search: the arguments are bound and the payload built.
Enter(t, cls, kw, r) ==
    /\ Ready(t)
    /\ started' = started + 1
    /\ clients' = [clients EXCEPT ![cls] = r.self]
    /\ frames' = [frames EXCEPT ![t] =
                    [pc |-> "built", cls |-> cls, kw |-> kw, n |-> started + 1,
                     req |-> [url |-> r.url, params |-> r.params],
                     got |-> GotExc(Exc("", None)), out |-> Pending]]
    /\ UNCHANGED <<ctor, requests>>

ImageSearch(t, kw) == Enter(t, "Image", kw, ImageRequest(clients.Image, kw))

VideoSearch(t, kw) == Enter(t, "Video", kw, VideoRequest(clients.Video, kw))

\* The thread calls get and blocks: the request is on the wire.
Get(t) ==
    /\ frames[t].pc = "built"
    /\ requests' = Issue(requests, t, frames[t].n)
    /\ frames' = [frames EXCEPT ![t].pc = "waiting"]
    /\ UNCHANGED <<clients, ctor, started>>

\* get is over, with a response or an exception; the call ends.
Finish(t, got) ==
    /\ frames[t].pc = "waiting"
    /\ frames' = [frames EXCEPT ![t].pc = "done", ![t].got = got,
                    ![t].out = IF frames[t].cls = "Image"
                               THEN ImageResult(got) ELSE VideoResult(got)]
    /\ UNCHANGED <<clients, ctor, started, requests>>

Respond(t, resp) == Finish(t, Got(resp))

TransportFails(t, exc) == Finish(t, GotExc(exc))

\* The call is over: its frame is gone, the caller holds the outcome.
Leave(t) ==
    /\ frames[t].pc = "done"
    /\ frames' = [frames EXCEPT ![t] = Idle]
    /\ UNCHANGED <<clients, ctor, started, requests>>

\* One caller, one call after another: every option, a few responses.
NextOptions ==
    \/ \E t \in DOMAIN frames : Ready(t) /\ \E kw \in ImageKwargs : ImageSearch(t, kw)
    \/ \E t \in DOMAIN frames : Ready(t) /\ \E kw \in VideoKwargs : VideoSearch(t, kw)
    \/ \E t \in DOMAIN frames : Get(t)
    \/ \E t \in DOMAIN frames, resp \in FewResponses : Respond(t, resp)
    \/ \E t \in DOMAIN frames, exc \in FewFailures : TransportFails(t, exc)
    \/ \E t \in DOMAIN frames : Leave(t)

\* One caller, one call after another: a few options, every response.
Next ==
    \/ \E t \in DOMAIN frames : Ready(t) /\ \E kw \in FewKwargs : ImageSearch(t, kw)
    \/ \E t \in DOMAIN frames : Ready(t) /\ \E kw \in FewKwargs : VideoSearch(t, kw)
    \/ \E t \in DOMAIN frames : Get(t)
    \/ \E t \in DOMAIN frames, resp \in Responses : Respond(t, resp)
    \/ \E t \in DOMAIN frames, exc \in Failures : TransportFails(t, exc)
    \/ \E t \in DOMAIN frames : Leave(t)

\* Several threads sharing the two objects, their calls interleaved.
NextConc ==
    \/ \E t \in DOMAIN frames : Ready(t) /\ \E kw \in FewKwargs : ImageSearch(t, kw)
    \/ \E t \in DOMAIN frames : Ready(t) /\ \E kw \in FewKwargs : VideoSearch(t, kw)
    \/ \E t \in DOMAIN frames : Get(t)
    \/ \E t \in DOMAIN frames, resp \in FewResponses : Respond(t, resp)
    \/ \E t \in DOMAIN frames, exc \in FewFailures : TransportFails(t, exc)
    \/ \E t \in DOMAIN frames : Leave(t)

Spec == Init /\ [][Next]_vars

SpecOptions == Init /\ [][NextOptions]_vars

SpecConc == InitConc /\ [][NextConc]_vars

(***************************************************************************)
(* Vocabulary of the properties.                                           *)
(***************************************************************************)
Threads   == DOMAIN frames
InCall(t) == frames[t].pc # "idle"
Sent(t)   == frames[t].pc \in {"waiting", "done"}
Ended(t)  == frames[t].pc = "done"
Answered(t) == Ended(t) /\ frames[t].got.kind = "response"

BaseUrl == "https://pixabay.com/api/"

\* The documented default of every option (the table of the interface).
TableDefault ==
    [q              |-> S("yellow flower"),
     lang           |-> S("en"),
     id             |-> S(""),
     image_type     |-> S("all"),
     video_type     |-> S("all"),
     orientation    |-> S("all"),
     category       |-> S(""),
     min_width      |-> I(0),
     min_height     |-> I(0),
     colors         |-> S(""),
     editors_choice |-> S("false"),
     safesearch     |-> S("false"),
     order          |-> S("popular"),
     page           |-> I(1),
     per_page       |-> I(20),
     callback       |-> S(""),
     pretty         |-> S("false")]

\* The documented query parameters of each resource, "key" apart.
ImageOptions == {"q", "lang", "id", "image_type", "orientation", "category",
                 "min_width", "min_height", "colors", "editors_choice",
                 "safesearch", "order", "page", "per_page", "callback", "pretty"}
VideoOptions == {"q", "lang", "id", "video_type", "category", "min_width",
                 "min_height", "editors_choice", "safesearch", "order", "page",
                 "per_page", "callback", "pretty"}
OptionsOf(cls) == IF cls = "Image" THEN ImageOptions ELSE VideoOptions
UrlOf(cls)     == IF cls = "Image" THEN BaseUrl ELSE "https://pixabay.com/api/videos/"

BoolFields == {"editors_choice", "safesearch", "pretty"}
BoolStrings == {S("true"), S("false")}

\* The documented parse of the well-formed bodies, and the decoder's
\* complaint about the others.
ParsedBody(text) ==
    CASE text = BodyHits ->
           Dict([total |-> I(1), hits |-> List(<<Dict([id |-> I(1)])>>)])
      [] text = BodyNoHits ->
           Dict([total |-> I(0), hits |-> List(<<>>)])
WellFormed == {BodyHits, BodyNoHits}
DecoderError(text) ==
    CASE text = BodyText     -> "Expecting value"
      [] text = BodyEmpty    -> "Expecting value"
      [] text = BodyCut      -> "Expecting property name enclosed in double quotes"
      [] text = BodyTrailing -> "Extra data"

(***************************************************************************)
(* C1: whenever get answers with a status other than 200, whatever the     *)
(* status (201 and 204 included) and for both resources, the call returns  *)
(* no value: it raises, and the error's content is the response's body     *)
(* text as received, unparsed.                                             *)
(***************************************************************************)
C1_Non200RaisesBodyText ==
    \A t \in Threads :
        (Answered(t) /\ frames[t].got.resp.status_code # 200) =>
            /\ frames[t].out.kind = "raise"
            /\ frames[t].out.value = None
            /\ frames[t].out.exc.content = Text(frames[t].got.resp.text)

C1_Witness ==
    \E t \in Threads :
        /\ Answered(t)
        /\ frames[t].cls = "Video"
        /\ frames[t].got.resp = Response(201, BodyHits)
        /\ frames[t].out.exc.content = Text(BodyHits)

(***************************************************************************)
(* C2: whenever get answers with status 200 and a well-formed JSON body,   *)
(* the call raises nothing and returns the parsed structure of that body,  *)
(* nothing added, removed or re-shaped.                                    *)
(***************************************************************************)
C2_OkReturnsParsedBody ==
    \A t \in Threads :
        (/\ Answered(t)
         /\ frames[t].got.resp.status_code = 200
         /\ frames[t].got.resp.text \in WellFormed) =>
            frames[t].out = Return(ParsedBody(frames[t].got.resp.text))

C2_Witness ==
    \E t \in Threads :
        /\ Answered(t)
        /\ frames[t].cls = "Video"
        /\ frames[t].got.resp = Response(200, BodyHits)
        /\ frames[t].out.kind = "return"
        /\ frames[t].out.value[2].hits = List(<<Dict([id |-> I(1)])>>)

C4_SuppliedOverDefaults ==
    \A t \in Threads :
        InCall(t) =>
            /\ DOMAIN frames[t].req.params = OptionsOf(frames[t].cls) \cup {"key"}
            /\ \A p \in OptionsOf(frames[t].cls) :
                  frames[t].req.params[p] =
                     IF p \in DOMAIN frames[t].kw
                     THEN frames[t].kw[p] ELSE TableDefault[p]

C4_Witness ==
    \E t \in Threads :
        /\ Sent(t)
        /\ frames[t].cls = "Video"
        /\ frames[t].kw = [per_page |-> I(1000), min_height |-> I(-1)]
        /\ frames[t].req.params.per_page = I(1000)
        /\ frames[t].req.params.min_height = I(-1)
        /\ frames[t].req.params.min_width = I(0)

(***************************************************************************)
(* C5: every request's payload has the entry "key", and its value is the   *)
(* api key the client was constructed with, whatever the options.          *)
(***************************************************************************)
C5_KeyAlwaysSent ==
    \A t \in Threads :
        InCall(t) =>
            /\ "key" \in DOMAIN frames[t].req.params
            /\ frames[t].req.params.key = S(ctor[frames[t].cls])

C5_Witness ==
    \E t \in Threads :
        /\ Sent(t)
        /\ frames[t].cls = "Image"
        /\ frames[t].kw = [id |-> S("195893"), q |-> S("apple")]
        /\ ctor.Image = "key-B"
        /\ frames[t].req.params.key = S("key-B")

(***************************************************************************)
(* C6: an image search's request goes to the base URL exactly, a video     *)
(* search's to the base URL followed by "videos/", whatever the options.   *)
(***************************************************************************)
C6_UrlByResource ==
    \A t \in Threads :
        InCall(t) =>
            frames[t].req.url =
               IF frames[t].cls = "Image"
               THEN "https://pixabay.com/api/"
               ELSE "https://pixabay.com/api/videos/"

C6_Witness ==
    \E t \in Threads :
        /\ Sent(t)
        /\ frames[t].cls = "Video"
        /\ frames[t].n = 2
        /\ "video_type" \in DOMAIN frames[t].kw
        /\ frames[t].req.url = "https://pixabay.com/api/videos/"

(***************************************************************************)
(* C7, as claimed: the payload entries of editors_choice, safesearch and   *)
(* pretty are always one of the strings "true" and "false", however the    *)
(* caller supplies them.                                                   *)
(***************************************************************************)
C7_Original ==
    \A t \in Threads :
        InCall(t) =>
            \A f \in BoolFields : frames[t].req.params[f] \in BoolStrings

(***************************************************************************)
(* C7, amended: the payload entry of a boolean style option is one of the  *)
(* strings "true" and "false" when the caller omits the option or passes   *)
(* one of these two strings; nothing is converted, so any other value the  *)
(* caller passes, Python's True and False included, is the entry as it is. *)
(***************************************************************************)
C7_BoolStringsUnlessSupplied ==
    \A t \in Threads :
        InCall(t) =>
            \A f \in BoolFields :
                /\ (f \notin DOMAIN frames[t].kw \/ frames[t].kw[f] \in BoolStrings)
                      => frames[t].req.params[f] \in BoolStrings
                /\ (f \in DOMAIN frames[t].kw /\ frames[t].kw[f] \notin BoolStrings)
                      => frames[t].req.params[f] = frames[t].kw[f]

C7_Witness ==
    \E t \in Threads :
        /\ Sent(t)
        /\ frames[t].kw = [editors_choice |-> B(TRUE), pretty |-> S("true")]
        /\ frames[t].req.params.editors_choice = B(TRUE)
        /\ frames[t].req.params.pretty = S("true")
        /\ frames[t].req.params.safesearch = S("false")

(***************************************************************************)
(* C8: every search call issues exactly one GET, whatever its outcome.  A  *)
(* call that has reached get has one request on the wire and never a       *)
(* second one, neither after a non-200 status or a failure of the          *)
(* transport nor after the call has ended; a call that has not reached get *)
(* has none.  So N calls that have ended issued N requests, and each       *)
(* thread's requests are in the order of its calls.                        *)
(***************************************************************************)
IssuedFor(n) == Cardinality({i \in 1..Len(requests) : requests[i].n = n})
Building(n)  == \E t \in Threads : frames[t].pc = "built" /\ frames[t].n = n

C8_OneGetPerCall ==
    /\ \A n \in 1..started : IssuedFor(n) = IF Building(n) THEN 0 ELSE 1
    /\ \A i \in 1..Len(requests) : requests[i].n \in 1..started
    /\ \A i, j \in 1..Len(requests) :
          (i < j /\ requests[i].t = requests[j].t) => requests[i].n < requests[j].n
    /\ \A t \in Threads : Sent(t) =>
          \E i \in 1..Len(requests) : requests[i] = [t |-> t, n |-> frames[t].n]

C8_Witness ==
    \E t \in Threads :
        /\ started = 2
        /\ Len(requests) = 2
        /\ requests[1].t = t
        /\ requests[2].t = t
        /\ Ended(t)
        /\ frames[t].got.kind = "raised"

(***************************************************************************)
(* C9: nothing is caught.  When the transport fails, the call ends by      *)
(* raising the transport's exception itself; when a status-200 body is not *)
(* well-formed JSON, it ends by raising the decoder's exception.  Either   *)
(* way no value is returned and the exception is not the non-200 error     *)
(* that carries the response text.                                         *)
(***************************************************************************)
C9_FailuresPropagate ==
    \A t \in Threads :
        /\ (Ended(t) /\ frames[t].got.kind = "raised") =>
              /\ frames[t].out.kind = "raise"
              /\ frames[t].out.value = None
              /\ frames[t].out.exc = frames[t].got.exc
              /\ frames[t].out.exc \in Failures
        /\ (/\ Answered(t)
            /\ frames[t].got.resp.status_code = 200
            /\ frames[t].got.resp.text \notin WellFormed) =>
              /\ frames[t].out.kind = "raise"
              /\ frames[t].out.value = None
              /\ frames[t].out.exc.type = "JSONDecodeError"
              /\ frames[t].out.exc.content = S(DecoderError(frames[t].got.resp.text))

C9_Witness ==
    \E t \in Threads :
        /\ Answered(t)
        /\ frames[t].cls = "Image"
        /\ frames[t].got.resp = Response(200, BodyCut)
        /\ frames[t].out.kind = "raise"
        /\ frames[t].out.exc.type = "JSONDecodeError"

(***************************************************************************)
(* C10: no search call changes the configuration.  Whatever calls have     *)
(* been made or are under way, on whatever threads and however they ended, *)
(* each client's api_key and root_url are those of its construction, and   *)
(* the request of every call is the one its own arguments and that         *)
(* configuration give.                                                     *)
(***************************************************************************)
RequestFor(cls, kw) ==
    [url    |-> UrlOf(cls),
     params |-> [p \in OptionsOf(cls) \cup {"key"} |->
                   IF p = "key" THEN S(ctor[cls])
                   ELSE IF p \in DOMAIN kw THEN kw[p] ELSE TableDefault[p]]]

C10_ConfigurationUnchanged ==
    /\ \A c \in {"Image", "Video"} :
          clients[c] = [api_key |-> ctor[c], root_url |-> BaseUrl]
    /\ \A t \in Threads :
          InCall(t) => frames[t].req = RequestFor(frames[t].cls, frames[t].kw)

C10_Witness ==
    \E t, u \in Threads :
        /\ t # u
        /\ frames[t].pc = "waiting"
        /\ frames[t].cls = "Video"
        /\ frames[t].n = 1
        /\ frames[u].pc = "built"
        /\ frames[u].cls = "Video"
        /\ frames[u].kw = [q |-> S("apple"), page |-> I(1)]
        /\ clients.Video = [api_key |-> ctor.Video, root_url |-> BaseUrl]
        /\ frames[u].req.url = "https://pixabay.com/api/videos/"

====
